---- MODULE Spec2Model ----
(***************************************************************************)
(* pg-fusion: Database / DatabaseClient.                                   *)
(*                                                                         *)
(* One call of a Database method is followed through db.withClient, the    *)
(* DatabaseClient method it proxies to, and every statement that method    *)
(* sends on the pooled connection.  The connection and the pool are the    *)
(* environment: every statement sent may succeed or fail, an INSERT may    *)
(* return any number of rows, pool.connect() may reject.                   *)
(*                                                                         *)
(* Spec follows one call; ResultSpec calls toInsertResult on any list of   *)
(* rows; PoolSpec runs the db.transaction calls of several callers against *)
(* one pool.                                                               *)
(***************************************************************************)
EXTENDS Integers, Sequences, FiniteSets, TLC

(* ------------------------------ bounds -------------------------------- *)
\* longest query list handed to executeAll
MaxQueries == 2
\* longest record list handed to insertAll
MaxRecords == 2
\* most statements and nested transactions the user's callbacks issue in one call
MaxCbSteps == 3
\* deepest nesting of client.transaction inside user callbacks
MaxDepth == 2
\* most rows the connection returns for one INSERT
MaxRows == 2
\* most base tables the catalog query returns
MaxTables == 2
\* the callers of db.transaction that run at the same time
Callers == { "a", "b" }
\* the connections the pool opens for them
Connections == 1..Cardinality(Callers)

QueryIds == 1..2
UserErrors == 1..1
UserResults == 1..1

(* ------------------------------ values -------------------------------- *)
\* Every JavaScript value the model passes around has the same shape, so
\* that any two can be compared.
Val(k, n, rows) == [k |-> k, n |-> n, rows |-> rows]
Void == Val("undefined", 0, <<>>)
Null == Val("null", 0, <<>>)
Row(r) == Val("row", r, <<>>)
Rows(rs) == Val("rows", 0, rs)
UserValue(n) == Val("value", n, <<>>)
\* the error the connection reports for the statement at position i of the log
StmtError(i) == Val("StatementError", i, <<>>)
\* an error thrown by the user's callback itself
UserError(n) == Val("UserError", n, <<>>)
ConnectError == Val("ConnectError", 0, <<>>)
MigrateError(i) == Val("MigrateError", i, <<>>)
MultipleRowsError == Val("INSERT statement unexpectedly returned multiple rows", 0, <<>>)
NoRowsError == Val("INSERT statement unexpectedly returned no rows", 0, <<>>)
\* new Error(`Expected one row, got: ${JSON.stringify(rows)}`)
ExpectedOneRowError(rows) == Val("Expected one row, got", 0, rows)

\* how an async call settles
None == [t |-> "none", v |-> Void]
Ret(v) == [t |-> "ret", v |-> v]
Err(e) == [t |-> "err", v |-> e]

(* ------------------------------ sql.ts -------------------------------- *)
(* A SqlQuery is a Fragment: n + 1 pieces of literal text around n          *)
(* interpolations.  A piece of text is a sequence of chunks (words,         *)
(* punctuation, white space); the text itself is their concatenation.       *)
EmptyFragment == [text |-> << <<>> >>, interp |-> <<>>]

\* the three interpolations
Value(v) == [t |-> "Value", v |-> v, s |-> <<>>, f |-> EmptyFragment]
Raw(s) == [t |-> "Raw", v |-> 0, s |-> s, f |-> EmptyFragment]
Sub(f) == [t |-> "Sub", v |-> 0, s |-> <<>>, f |-> f]

\* what a caller may put into ${...}: a plain value or a SqlQuery
Plain(v) == [isSql |-> FALSE, v |-> v, f |-> EmptyFragment]
Query(f) == [isSql |-> TRUE, v |-> 0, f |-> f]

\* sql`text[1] ${interpolations[1]} text[2] ... text[n + 1]`
literal(textParts, interpolations) ==
  [text |-> textParts,
   interp |-> [j \in 1..Len(interpolations) |->
                 IF interpolations[j].isSql THEN Sub(interpolations[j].f)
                 ELSE Value(interpolations[j].v)]]

\* sql.raw(text)
raw(text) == [text |-> << text >>, interp |-> <<>>]

\* the characters of an identifier, as far as quoting looks at them
IdentifierChunks(identifier) ==
  IF identifier = "na\"me" THEN << "na", "\"", "me" >> ELSE << identifier >>

RECURSIVE DoubleQuotes(_)
DoubleQuotes(chunks) ==
  IF chunks = <<>> THEN <<>>
  ELSE (IF Head(chunks) = "\"" THEN << "\"", "\"" >> ELSE << Head(chunks) >>)
       \o DoubleQuotes(Tail(chunks))

\* sql.quote(identifier)
quote(identifier) ==
  raw(<< "\"" >> \o DoubleQuotes(IdentifierChunks(identifier)) \o << "\"" >>)

\* sql.param(value)
param(value) == [text |-> << <<>>, <<>> >>, interp |-> << Value(value) >>]

\* sql.join(queries, delimiter)
join(queries, delimiter) ==
  IF Len(queries) = 0 THEN EmptyFragment
  ELSE [text |-> [j \in 1..(2 * Len(queries)) |-> <<>>],
        interp |-> [j \in 1..(2 * Len(queries) - 1) |->
                      IF j % 2 = 1 THEN Sub(queries[(j + 1) \div 2]) ELSE Raw(delimiter)]]

\* a chunk of the flattened statement: text, or the placeholder $ph
Chunk(s) == [ph |-> 0, s |-> s]
Placeholder(n) == [ph |-> n, s |-> "$" \o ToString(n)]
Chunks(piece) == [j \in 1..Len(piece) |-> Chunk(piece[j])]

\* what a Value contributes when n values were emitted before it
ValuePiece(n, v) == [chunks |-> << Placeholder(n + 1) >>, values |-> << v >>]

\* mutant: a composed sub-fragment keeps its own numbering
RenumberNone(chunks, offset) == chunks

\* the placeholders of a composed sub-fragment, moved past the offset values
\* the outer traversal has already emitted
Renumber(chunks, offset) ==
  [j \in 1..Len(chunks) |->
     IF chunks[j].ph > 0 THEN Placeholder(chunks[j].ph + offset) ELSE chunks[j]]

RECURSIVE ComposeFrom(_, _, _)
\* the walk over interpolation k, k + 1, ... of f; acc is what was emitted so far
ComposeFrom(f, k, acc) ==
  IF k > Len(f.interp) THEN acc
  ELSE LET it == f.interp[k]
           n == Len(acc.values)
           piece ==
             CASE it.t = "Value" -> ValuePiece(n, it.v)
               [] it.t = "Raw" -> [chunks |-> Chunks(it.s), values |-> <<>>]
               [] it.t = "Sub" ->
                    LET inner == ComposeFrom(it.f, 1,
                                   [chunks |-> Chunks(it.f.text[1]), values |-> <<>>])
                    IN [chunks |-> Renumber(inner.chunks, n), values |-> inner.values]
       IN ComposeFrom(f, k + 1,
            [chunks |-> acc.chunks \o piece.chunks \o Chunks(f.text[k + 1]),
             values |-> acc.values \o piece.values])

RECURSIVE Concat(_)
Concat(strings) ==
  IF strings = <<>> THEN ""
  ELSE IF Len(strings) = 1 THEN strings[1]
  ELSE LET half == Len(strings) \div 2
       IN Concat(SubSeq(strings, 1, half)) \o Concat(SubSeq(strings, half + 1, Len(strings)))

\* compose(fragment): the statement text, chunk by chunk (Flattened) and as
\* one string, and the values bound to its placeholders
Flattened(fragment) ==
  LET out == ComposeFrom(fragment, 1,
               [chunks |-> Chunks(fragment.text[1]), values |-> <<>>])
  IN [chunks |-> [j \in 1..Len(out.chunks) |-> out.chunks[j].s], values |-> out.values]

compose(fragment) ==
  LET out == Flattened(fragment)
  IN [chunks |-> out.chunks, text |-> Concat(out.chunks), values |-> out.values]

\* the test matcher's view of a text: runs of white space are one space,
\* none at either end
WhiteSpace == { " ", "\n" }

IsKept(chunk) == chunk.keep
Collapse(strings) ==
  LET marked == [j \in 1..Len(strings) |->
                   IF strings[j] \in WhiteSpace
                   THEN [s |-> " ", keep |-> j > 1 /\ strings[j - 1] \notin WhiteSpace]
                   ELSE [s |-> strings[j], keep |-> TRUE]]
      kept == SelectSeq(marked, IsKept)
  IN [j \in 1..Len(kept) |-> kept[j].s]

NormalizeSpace(strings) ==
  LET c == Collapse(strings)
  IN Concat(IF c # <<>> /\ c[Len(c)] = " " THEN SubSeq(c, 1, Len(c) - 1) ELSE c)

(* the SqlQuery values a caller builds with the helpers above: templates  *)
(* nested up to MaxNest deep around the values of SqlValues               *)
MaxNest == 2
SqlValues == { 7, 8 }
SelectText == << << "SELECT", " " >>, << " ", "AS", " ", "x" >> >>
AndText == << << "(" >>, << " ", "AND", " " >>, << ")" >> >>

Around(f) ==
  { literal(SelectText, << Query(f) >>),
    literal(AndText, << Query(f), Query(f) >>),
    literal(AndText, << Query(f), Plain(7) >>),
    literal(AndText, << Plain(8), Query(f) >>),
    join(<< f, param(7) >>, << "," >>) }

RECURSIVE Fragments(_)
Fragments(depth) ==
  IF depth = 0
  THEN { raw(<< "now()" >>), literal(SelectText, << Plain(8) >>) }
       \cup { param(v) : v \in SqlValues }
  ELSE LET inner == Fragments(depth - 1)
       IN inner \cup UNION { Around(f) : f \in inner }

(* --------------------------- insert.ts -------------------------------- *)
\* ConflictOptions | null | undefined
ConflictUndefined == [tag |-> "undefined", action |-> "", column |-> "", constraint |-> ""]
ConflictNull == [tag |-> "null", action |-> "", column |-> "", constraint |-> ""]
ConflictString == [tag |-> "string", action |-> "ignore", column |-> "", constraint |-> ""]
ConflictObject(action, column, constraint) ==
  [tag |-> "object", action |-> action, column |-> column, constraint |-> constraint]

\* options?: InsertOptions
OptionsUndefined == [defined |-> FALSE, onConflict |-> ConflictUndefined]
Options(c) == [defined |-> TRUE, onConflict |-> c]

AllOptions ==
  { OptionsUndefined,
    Options(ConflictUndefined),
    Options(ConflictNull),
    Options(ConflictString),
    Options(ConflictObject("ignore", "", "")),
    Options(ConflictObject("ignore", "name", "")),
    Options(ConflictObject("ignore", "", "unique_name")),
    Options(ConflictObject("update", "name", "")),
    Options(ConflictObject("update", "", "unique_name")),
    Options(ConflictObject("update", "", "")) }

\* the options insertAll is called with: none, and one of each kind of policy
InsertAllOptions ==
  { OptionsUndefined,
    Options(ConflictString),
    Options(ConflictObject("ignore", "name", "")),
    Options(ConflictObject("update", "", "unique_name")) }

\* a record is an object: its keys in insertion order, each with its value
Field(c, v) == [column |-> c, value |-> v]
AllRecords ==
  { << Field("name", 1), Field("artist", 2) >>,
    << Field("artist", 3), Field("name", 4), Field("rating", 5) >>,
    << Field("name", 6) >> }

ObjectKeys(record) == [j \in 1..Len(record) |-> record[j].column]

\* the template literals of insert.ts, piece by piece
NoText == << <<>> >>
OnConstraintText == << << "ON", " ", "CONSTRAINT", " " >>, <<>> >>
ColumnTargetText == << << "(" >>, << ")" >> >>
DoNothingText ==
  << << "ON", " ", "CONFLICT", " " >>, << " ", "DO", " ", "NOTHING" >> >>
DoUpdateText ==
  << << "\n", " ", "ON", " ", "CONFLICT", " " >>,
     << " ", "DO", " ", "UPDATE", "\n", " ", "SET", " ", "(" >>,
     << ")", " ", "=", " ", "(" >>,
     << ")", "\n", " " >> >>
InsertText ==
  << << "\n", " ", "INSERT", " ", "INTO", " " >>,
     << " ", "(" >>,
     << ")", "\n", " ", "VALUES", " ", "(" >>,
     << ")", "\n", " " >>,
     << "\n", " ", "RETURNING", " ", "*", "\n" >> >>

\* mutant: the conflict target is not quoted
targetClauseUnquoted(target) ==
  IF target.constraint # ""
  THEN literal(OnConstraintText, << Query(raw(<< target.constraint >>)) >>)
  ELSE IF target.column # ""
       THEN literal(ColumnTargetText, << Query(raw(<< target.column >>)) >>)
       ELSE literal(NoText, <<>>)

targetClause(target) ==
  IF target.constraint # ""
  THEN literal(OnConstraintText, << Query(quote(target.constraint)) >>)
  ELSE IF target.column # ""
       THEN literal(ColumnTargetText, << Query(quote(target.column)) >>)
       ELSE literal(NoText, <<>>)

\* mutant: the update sets the columns to fresh parameters of its own
mkConflictClauseFreshValues(columnNamesSql, valuesSql, options) ==
  IF options.tag = "null"
  THEN literal(NoText, <<>>)
  ELSE IF options.action = "ignore"
       THEN literal(DoNothingText, << Query(targetClause(options)) >>)
       ELSE literal(DoUpdateText,
              << Query(targetClause(options)), Query(columnNamesSql),
                 Query(param(0)) >>)

mkConflictClause(columnNamesSql, valuesSql, options) ==
  IF options.tag = "null"
  THEN literal(NoText, <<>>)
  ELSE LET action == options.action
           target == options
       IN IF action = "ignore"
          THEN literal(DoNothingText, << Query(targetClause(target)) >>)
          ELSE literal(DoUpdateText,
                 << Query(targetClause(target)), Query(columnNamesSql),
                    Query(valuesSql) >>)

\* mutant: the values are written into the text
mkInsertQueryInlineValues(table, record, options) ==
  LET onConflict == IF (~options.defined) \/ options.onConflict.tag = "undefined"
                    THEN ConflictNull
                    ELSE options.onConflict
      columnNames == ObjectKeys(record)
      values == [j \in 1..Len(record) |-> record[j].value]
      columnNamesSql == join([j \in 1..Len(columnNames) |-> quote(columnNames[j])], << "," >>)
      valuesSql == join([j \in 1..Len(values) |-> raw(<< ToString(values[j]) >>)], << "," >>)
      conflictClause == mkConflictClause(columnNamesSql, valuesSql, onConflict)
  IN [table |-> table, columnNames |-> columnNames, values |-> values,
      sql |-> literal(InsertText,
                << Query(quote(table)), Query(columnNamesSql), Query(valuesSql),
                   Query(conflictClause) >>)]

\* mutant: an omitted onConflict defaults to 'ignore'
mkInsertQueryDefaultIgnore(table, record, options) ==
  LET onConflict == IF (~options.defined) \/ options.onConflict.tag = "undefined"
                    THEN ConflictString
                    ELSE options.onConflict
      columnNames == ObjectKeys(record)
      values == [j \in 1..Len(record) |-> record[j].value]
      columnNamesSql == join([j \in 1..Len(columnNames) |-> quote(columnNames[j])], << "," >>)
      valuesSql == join([j \in 1..Len(values) |-> param(values[j])], << "," >>)
      conflictClause == mkConflictClause(columnNamesSql, valuesSql, onConflict)
  IN [table |-> table, columnNames |-> columnNames, values |-> values,
      sql |-> literal(InsertText,
                << Query(quote(table)), Query(columnNamesSql), Query(valuesSql),
                   Query(conflictClause) >>)]

mkInsertQuery(table, record, options) ==
  LET onConflict == IF (~options.defined) \/ options.onConflict.tag = "undefined"
                    THEN ConflictNull
                    ELSE options.onConflict
      columnNames == ObjectKeys(record)
      values == [j \in 1..Len(record) |-> record[j].value]
      columnNamesSql == join([j \in 1..Len(columnNames) |-> quote(columnNames[j])], << "," >>)
      valuesSql == join([j \in 1..Len(values) |-> param(values[j])], << "," >>)
      conflictClause == mkConflictClause(columnNamesSql, valuesSql, onConflict)
  IN [table |-> table, columnNames |-> columnNames, values |-> values,
      sql |-> literal(InsertText,
                << Query(quote(table)), Query(columnNamesSql), Query(valuesSql),
                   Query(conflictClause) >>)]

\* mutant: no check for more than one row
toInsertResultFirstRow(rows, options) ==
  LET row == IF Len(rows) >= 1 THEN rows[1] ELSE Null
      conflictOptions == IF options.defined THEN options.onConflict
                         ELSE ConflictUndefined
      isNullableResult ==
        /\ conflictOptions.tag \in {"string", "object"}
        /\ conflictOptions.action = "ignore"
  IN IF (~isNullableResult) /\ row = Null
     THEN Err(NoRowsError)
     ELSE Ret(row)

\* mutant: with the policy ignore the result is null even when a row came back
toInsertResultIgnoreDropsRow(rows, options) ==
  IF Len(rows) > 1
  THEN Err(MultipleRowsError)
  ELSE LET row == IF Len(rows) = 1 THEN rows[1] ELSE Null
           conflictOptions == IF options.defined THEN options.onConflict
                              ELSE ConflictUndefined
           isNullableResult ==
             /\ conflictOptions.tag \in {"string", "object"}
             /\ conflictOptions.action = "ignore"
       IN IF isNullableResult THEN Ret(Null)
          ELSE IF row = Null THEN Err(NoRowsError)
          ELSE Ret(row)

\* mutant: only the string 'ignore' makes the result nullable
toInsertResultStringOnly(rows, options) ==
  IF Len(rows) > 1
  THEN Err(MultipleRowsError)
  ELSE LET row == IF Len(rows) = 1 THEN rows[1] ELSE Null
           conflictOptions == IF options.defined THEN options.onConflict
                              ELSE ConflictUndefined
           isNullableResult == conflictOptions.tag = "string"
       IN IF (~isNullableResult) /\ row = Null
          THEN Err(NoRowsError)
          ELSE Ret(row)

\* mutant: the check for several rows comes after the nullable result
toInsertResultIgnoreAllowsMany(rows, options) ==
  LET row == IF Len(rows) >= 1 THEN rows[1] ELSE Null
      conflictOptions == IF options.defined THEN options.onConflict
                         ELSE ConflictUndefined
      isNullableResult ==
        /\ conflictOptions.tag \in {"string", "object"}
        /\ conflictOptions.action = "ignore"
  IN IF isNullableResult THEN Ret(row)
     ELSE IF Len(rows) > 1 THEN Err(MultipleRowsError)
     ELSE IF row = Null THEN Err(NoRowsError)
     ELSE Ret(row)

toInsertResult(rows, options) ==
  IF Len(rows) > 1
  THEN Err(MultipleRowsError)
  ELSE LET row == IF Len(rows) = 1 THEN rows[1] ELSE Null
           conflictOptions == IF options.defined THEN options.onConflict
                              ELSE ConflictUndefined
           isNullableResult ==
             /\ conflictOptions.tag \in {"string", "object"}
             /\ conflictOptions.action = "ignore"
       IN IF (~isNullableResult) /\ row = Null
          THEN Err(NoRowsError)
          ELSE Ret(row)

(* ---------------------------- statements ------------------------------ *)
NoInsert == [table |-> "", columnNames |-> <<>>, values |-> <<>>, sql |-> EmptyFragment]
\* the queries a caller hands to execute, executeAll or a callback's query
UserSql(q) ==
  literal(<< << "UPDATE", " ", "\"song\"", " ", "SET", " ", "rating", "=" >>, <<>> >>,
          << Plain(q) >>)

\* the tables of the public schema, as the catalog names them
TableName(j) == "t" \o ToString(j)

CatalogSql ==
  literal(<< << "\n", " ", "SELECT", " ", "table_name", " ", "AS", " ", "table", " ",
                "FROM", " ", "information_schema.tables", "\n", " ",
                "WHERE", " ", "table_schema", " ", "=", " ", "'public'", " ",
                "AND", " ", "table_type", " ", "=", " ", "'BASE TABLE'", "\n", " " >> >>,
          <<>>)

\* mutant: the tables are listed without their schema
TruncateSqlNoSchema(tables) ==
  LET truncationList == [j \in 1..Len(tables) |-> quote(TableName(tables[j]))]
  IN literal(<< << "\n", " ", "TRUNCATE", " " >>,
                << " ", "RESTART", " ", "IDENTITY", "\n", " " >> >>,
             << Query(join(truncationList, << "," >>)) >>)

TruncateSql(tables) ==
  LET truncationList ==
        [j \in 1..Len(tables) |->
           literal(<< << "\"public\"", "." >>, <<>> >>, << Query(quote(TableName(tables[j]))) >>)]
  IN literal(<< << "\n", " ", "TRUNCATE", " " >>,
                << " ", "RESTART", " ", "IDENTITY", "\n", " " >> >>,
             << Query(join(truncationList, << "," >>)) >>)

Stmt(kind, q, ins, tables) ==
  [kind |-> kind, q |-> q, ins |-> ins, tables |-> tables,
   sql |-> CASE kind = "QUERY" -> UserSql(q)
             [] kind = "INSERT" -> ins.sql
             [] kind = "CATALOG" -> CatalogSql
             [] kind = "TRUNCATE" -> TruncateSql(tables)
             [] OTHER -> literal(<< << kind >> >>, <<>>)]
Begin == Stmt("BEGIN", 0, NoInsert, <<>>)
Commit == Stmt("COMMIT", 0, NoInsert, <<>>)
Rollback == Stmt("ROLLBACK", 0, NoInsert, <<>>)
UserQuery(q) == Stmt("QUERY", q, NoInsert, <<>>)
\* client.query(query) with the SqlQuery the caller built
FragmentQuery(query) == [Stmt("QUERY", 0, NoInsert, <<>>) EXCEPT !.sql = query]
InsertStmt(ins) == Stmt("INSERT", 0, ins, <<>>)
CatalogQuery == Stmt("CATALOG", 0, NoInsert, <<>>)
Truncate(tables) == Stmt("TRUNCATE", 0, NoInsert, tables)

(* ------------------------------- state -------------------------------- *)
VARIABLES
  calls,   \* every call made so far, by call id: its frame while it runs, its result after
  stack,   \* ids of the calls that have not settled, innermost last
  log,     \* statements sent on the pooled connection, in order
  db,      \* the database as the connections drive it
  pool,    \* pg.Pool: connections handed out and released
  migLog   \* invocations of the node-pg-migrate runner

vars == << calls, stack, log, db, pool, migLog >>

NoArg ==
  [method |-> "", cb |-> "", qs |-> <<>>, table |-> "", records |-> <<>>,
   options |-> OptionsUndefined, action |-> "", query |-> EmptyFragment, rows |-> <<>>,
   runner |-> [migrationsTable |-> "", count |-> ""]]

Frame(op, parent, pc, arg) ==
  [op |-> op, parent |-> parent, pc |-> pc, arg |-> arg,
   i |-> 1, acc |-> <<>>, e |-> Void, sub |-> None, res |-> None, conn |-> 0]

Top == stack[Len(stack)]
Cur == calls[Top]
Running(op, pc) == stack # <<>> /\ Cur.op = op /\ Cur.pc = pc
NextIdx == Len(log) + 1

\* the call id settles with outcome o: its awaiting caller receives o
Settle(cs, id, o) ==
  [c \in DOMAIN cs |->
     IF c = id THEN [cs[c] EXCEPT !.pc = "done", !.res = o]
     ELSE IF c = cs[id].parent THEN [cs[c] EXCEPT !.sub = o]
     ELSE cs[c]]

\* the running call calls op and awaits it
CallFrom(pc, frame) ==
  /\ calls' = Append([calls EXCEPT ![Top].pc = pc, ![Top].sub = None],
                      [frame EXCEPT !.conn = Cur.conn])
  /\ stack' = Append(stack, Len(calls) + 1)

Finish(o) ==
  /\ calls' = Settle(calls, Top, o)
  /\ stack' = SubSeq(stack, 1, Len(stack) - 1)

(* the database behind the connection: ROLLBACK discards the uncommitted  *)
(* effects of the open transaction, COMMIT makes them durable, a redundant *)
(* BEGIN continues the open transaction, a statement outside a transaction *)
(* commits by itself, a failed statement changes nothing.                  *)
Writes(stmt) == stmt.kind \in {"QUERY", "INSERT", "TRUNCATE"}

\* the statement at position idx of the log arrives on connection k; each
\* connection has its own open transaction
Apply(d, stmt, idx, ok, k) ==
  IF ~ok THEN d
  ELSE IF stmt.kind = "BEGIN" THEN [d EXCEPT !.inTx[k] = TRUE]
  ELSE IF stmt.kind = "COMMIT"
       THEN [d EXCEPT !.committed = @ \cup d.pending[k], !.pending[k] = {}, !.inTx[k] = FALSE]
  ELSE IF stmt.kind = "ROLLBACK"
       THEN [d EXCEPT !.pending[k] = {}, !.inTx[k] = FALSE]
  ELSE IF ~Writes(stmt) THEN d
  ELSE IF d.inTx[k] THEN [d EXCEPT !.pending[k] = @ \cup {idx}]
  ELSE [d EXCEPT !.committed = @ \cup {idx}]

\* what a query on connection k sees
Visible(k) == db.committed \cup db.pending[k]

\* the events on the connection are counted: Clock is the count so far
Clock == IF log = <<>> THEN 0 ELSE log[Len(log)].answeredAt

\* a statement by call by: written to the connection as event sentAt, its
\* response (ok, rows) read as event answeredAt
Entry(stmt, ok, rows, by, sentAt, answeredAt) ==
  LET sent == compose(stmt.sql)
  IN [stmt |-> stmt, ok |-> ok, rows |-> rows, by |-> by,
      chunks |-> sent.chunks, text |-> sent.text, values |-> sent.values,
      sentAt |-> sentAt, answeredAt |-> answeredAt, conn |-> calls[by].conn]

\* await this.client.query(stmt) by the running call; rows is what comes back
Send(stmt, ok, rows) ==
  /\ log' = Append(log, Entry(stmt, ok, rows, Top, Clock + 1, Clock + 2))
  /\ db' = Apply(db, stmt, NextIdx, ok, Cur.conn)

Init ==
  /\ calls = <<>>
  /\ stack = <<>>
  /\ log = <<>>
  /\ db = [committed |-> {}, pending |-> [k \in Connections |-> {}],
           inTx |-> [k \in Connections |-> FALSE]]
  /\ pool = [connected |-> 0, released |-> 0, out |-> {}]
  /\ migLog = <<>>

(* --------------------------- database.ts ------------------------------ *)
\* the node-pg-migrate options a caller passes besides action ("" = not given)
RunnerOptions ==
  { [migrationsTable |-> t, count |-> c] : t \in {"", "custom_migrations"}, c \in {"", "1"} }

SeqsUpTo(S, n) == UNION { [1..k -> S] : k \in 0..n }

MethodArgs ==
  { [NoArg EXCEPT !.method = m] : m \in {"transaction", "clear"} }
  \cup { [NoArg EXCEPT !.method = "query", !.query = f] : f \in Fragments(MaxNest) }
  \cup { [NoArg EXCEPT !.method = "queryOne", !.query = f] : f \in Fragments(0) }
  \cup { [NoArg EXCEPT !.method = "execute", !.qs = << q >>] : q \in QueryIds }
  \cup { [NoArg EXCEPT !.method = "executeAll", !.qs = qs] : qs \in SeqsUpTo(QueryIds, MaxQueries) }
  \cup { [NoArg EXCEPT !.method = "insert", !.table = "song", !.records = << r >>, !.options = o] :
           r \in AllRecords, o \in AllOptions }
  \cup { [NoArg EXCEPT !.method = "insertAll", !.table = "song", !.records = rs, !.options = o] :
           rs \in SeqsUpTo(AllRecords, MaxRecords), o \in InsertAllOptions }
  \cup { [NoArg EXCEPT !.method = "migrate", !.action = a, !.runner = r] :
           a \in {"", "up", "down", "redo"}, r \in RunnerOptions }

\* db.<method>(...): return this.withClient((client) => client.<method>(...))
DbMethod(a) ==
  /\ calls = <<>>
  /\ calls' = << Frame("withClient", 0, "connect", a) >>
  /\ stack' = << 1 >>
  /\ UNCHANGED << log, db, pool, migLog >>

FirstPc(method) ==
  CASE method = "query" -> "send"
    [] method = "queryOne" -> "send"
    [] method = "insert" -> "send"
    [] method = "transaction" -> "begin"
    [] method = "migrate" -> "run"
    [] OTHER -> "start"

\* pg.Pool hands out a connection that is not checked out: an idle one
\* before a new one
Idle == CHOOSE k \in Connections \ pool.out : \A j \in Connections \ pool.out : k <= j

\* const pgClient = await this.pool.connect(); ...; return await callback(client)
PoolConnect(ok) ==
  /\ Running("withClient", "connect")
  /\ IF ok
     THEN /\ pool' = [pool EXCEPT !.connected = @ + 1, !.out = @ \cup {Idle}]
          /\ calls' = Append([calls EXCEPT ![Top].pc = "callback", ![Top].sub = None,
                                           ![Top].conn = Idle],
                             [Frame(Cur.arg.method, Top, FirstPc(Cur.arg.method),
                                    [Cur.arg EXCEPT !.cb = "user"]) EXCEPT !.conn = Idle])
          /\ stack' = Append(stack, Len(calls) + 1)
     ELSE /\ pool' = pool
          /\ Finish(Err(ConnectError))
  /\ UNCHANGED << log, db, migLog >>

\* mutant: the connection is released after the callback returns, not in finally
WithClientReleaseOnReturn ==
  /\ Running("withClient", "callback")
  /\ Cur.sub # None
  /\ pool' = IF Cur.sub.t = "ret"
             THEN [pool EXCEPT !.released = @ + 1, !.out = @ \ {Cur.conn}]
             ELSE pool
  /\ Finish(Cur.sub)
  /\ UNCHANGED << log, db, migLog >>

\* mutant: return callback(client) without await: finally releases the
\* connection while the callback is still running
WithClientFinallyNoAwait ==
  \/ /\ Len(stack) > 1
     /\ calls[stack[1]].op = "withClient"
     /\ calls[stack[1]].conn \in pool.out
     /\ pool' = [pool EXCEPT !.released = @ + 1, !.out = @ \ {calls[stack[1]].conn}]
     /\ UNCHANGED << calls, stack, log, db, migLog >>
  \/ /\ Running("withClient", "callback")
     /\ Cur.sub # None
     /\ pool' = IF Cur.conn \in pool.out
                THEN [pool EXCEPT !.released = @ + 1, !.out = @ \ {Cur.conn}]
                ELSE pool
     /\ Finish(Cur.sub)
     /\ UNCHANGED << log, db, migLog >>

\* finally { pgClient.release() }
WithClientFinally ==
  /\ Running("withClient", "callback")
  /\ Cur.sub # None
  /\ pool' = [pool EXCEPT !.released = @ + 1, !.out = @ \ {Cur.conn}]
  /\ Finish(Cur.sub)
  /\ UNCHANGED << log, db, migLog >>

(* ---------------------------- client.ts ------------------------------- *)
\* client.query(query)
ClientQuery(ok) ==
  /\ Running("query", "send")
  /\ Send(FragmentQuery(Cur.arg.query), ok, <<>>)
  /\ Finish(IF ok THEN Ret(Rows(<<>>)) ELSE Err(StmtError(NextIdx)))
  /\ UNCHANGED << pool, migLog >>

\* mutant: BEGIN is sent inside the try block, its failure is caught
TxBeginInsideTry(ok) ==
  /\ Running("transaction", "begin")
  /\ Send(Begin, ok, <<>>)
  /\ IF ok
     THEN CallFrom("callback", Frame(Cur.arg.cb, Top, "body", Cur.arg))
     ELSE /\ calls' = [calls EXCEPT ![Top].pc = "catch", ![Top].e = StmtError(NextIdx)]
          /\ stack' = stack
  /\ UNCHANGED << pool, migLog >>

\* mutant: BEGIN is sent only when no client.transaction is active yet
TxBeginOutermostOnly(ok) ==
  /\ Running("transaction", "begin")
  /\ IF Cur.parent # 0 /\ calls[Cur.parent].op = "user"
     THEN /\ ok
          /\ CallFrom("callback", Frame(Cur.arg.cb, Top, "body", Cur.arg))
          /\ UNCHANGED << log, db >>
     ELSE /\ Send(Begin, ok, <<>>)
          /\ IF ok
             THEN CallFrom("callback", Frame(Cur.arg.cb, Top, "body", Cur.arg))
             ELSE Finish(Err(StmtError(NextIdx)))
  /\ UNCHANGED << pool, migLog >>

\* client.transaction: await this.client.query(sql`BEGIN`), then the callback
TxBegin(ok) ==
  /\ Running("transaction", "begin")
  /\ Send(Begin, ok, <<>>)
  /\ IF ok
     THEN CallFrom("callback", Frame(Cur.arg.cb, Top, "body", Cur.arg))
     ELSE Finish(Err(StmtError(NextIdx)))
  /\ UNCHANGED << pool, migLog >>

\* mutant: the call resolves to undefined instead of the callback's result
TxCommitDropsResult(ok) ==
  /\ Running("transaction", "callback")
  /\ Cur.sub.t = "ret"
  /\ Send(Commit, ok, <<>>)
  /\ IF ok
     THEN Finish(Ret(Void))
     ELSE /\ calls' = [calls EXCEPT ![Top].pc = "catch", ![Top].e = StmtError(NextIdx)]
          /\ stack' = stack
  /\ UNCHANGED << pool, migLog >>

\* mutant: COMMIT is sent outside the try block, its failure is thrown as is
TxCommitOutsideTry(ok) ==
  /\ Running("transaction", "callback")
  /\ Cur.sub.t = "ret"
  /\ Send(Commit, ok, <<>>)
  /\ Finish(IF ok THEN Ret(Cur.sub.v) ELSE Err(StmtError(NextIdx)))
  /\ UNCHANGED << pool, migLog >>

\* const result = await callback(); await this.client.query(sql`COMMIT`); return result
TxCommit(ok) ==
  /\ Running("transaction", "callback")
  /\ Cur.sub.t = "ret"
  /\ Send(Commit, ok, <<>>)
  /\ IF ok
     THEN Finish(Ret(Cur.sub.v))
     ELSE /\ calls' = [calls EXCEPT ![Top].pc = "catch", ![Top].e = StmtError(NextIdx)]
          /\ stack' = stack
  /\ UNCHANGED << pool, migLog >>

\* mutant: after a failed COMMIT was rolled back the result is returned
TxRollbackThenResult(ok) ==
  /\ \/ Running("transaction", "callback") /\ Cur.sub.t = "err"
     \/ Running("transaction", "catch")
  /\ LET e == IF Cur.pc = "catch" THEN Cur.e ELSE Cur.sub.v
     IN /\ Send(Rollback, ok, <<>>)
        /\ Finish(IF ~ok THEN Err(StmtError(NextIdx))
                  ELSE IF Cur.pc = "catch" THEN Ret(Cur.sub.v)
                  ELSE Err(e))
  /\ UNCHANGED << pool, migLog >>

\* catch (e) { await this.client.query(sql`ROLLBACK`); throw e }
TxRollback(ok) ==
  /\ \/ Running("transaction", "callback") /\ Cur.sub.t = "err"
     \/ Running("transaction", "catch")
  /\ LET e == IF Cur.pc = "catch" THEN Cur.e ELSE Cur.sub.v
     IN /\ Send(Rollback, ok, <<>>)
        /\ Finish(IF ok THEN Err(e) ELSE Err(StmtError(NextIdx)))
  /\ UNCHANGED << pool, migLog >>

\* how many client.transaction calls are open
Depth == Cardinality({ k \in 1..Len(stack) : calls[stack[k]].op = "transaction" })

\* statements sent and transactions started so far by the user's callbacks
CbSteps ==
  Cardinality({ j \in DOMAIN log : calls[log[j].by].op = "user" })
  + Cardinality({ c \in DOMAIN calls : calls[c].op = "transaction" /\ calls[c].parent # 0
                                        /\ calls[calls[c].parent].op = "user" })

(* the callback a caller hands to client.transaction: any sequence of      *)
(* statements and nested client.transaction calls, ended by a return or a  *)
(* throw; an error of a statement or of a nested call is not caught.       *)
CbQuery(q, ok) ==
  /\ Running("user", "body")
  /\ CbSteps < MaxCbSteps
  /\ Send(UserQuery(q), ok, <<>>)
  /\ IF ok
     THEN UNCHANGED << calls, stack >>
     ELSE Finish(Err(StmtError(NextIdx)))
  /\ UNCHANGED << pool, migLog >>

CbNested ==
  /\ Running("user", "body")
  /\ CbSteps < MaxCbSteps
  /\ Depth < MaxDepth
  /\ CallFrom("await", Frame("transaction", Top, "begin", [NoArg EXCEPT !.method = "transaction", !.cb = "user"]))
  /\ UNCHANGED << log, db, pool, migLog >>

CbNestedReturn ==
  /\ Running("user", "await")
  /\ Cur.sub # None
  /\ IF Cur.sub.t = "ret"
     THEN /\ calls' = [calls EXCEPT ![Top].pc = "body"]
          /\ stack' = stack
     ELSE Finish(Cur.sub)
  /\ UNCHANGED << log, db, pool, migLog >>

CbReturn(v) ==
  /\ Running("user", "body")
  /\ Finish(Ret(UserValue(v)))
  /\ UNCHANGED << log, db, pool, migLog >>

CbRaise(e) ==
  /\ Running("user", "body")
  /\ Finish(Err(UserError(e)))
  /\ UNCHANGED << log, db, pool, migLog >>

\* a call that awaits one inner call and returns undefined
AwaitVoid(op) ==
  /\ Running(op, "await")
  /\ Cur.sub # None
  /\ Finish(IF Cur.sub.t = "ret" THEN Ret(Void) ELSE Cur.sub)
  /\ UNCHANGED << log, db, pool, migLog >>

\* client.execute(query): await this.executeAll([query])
Execute ==
  /\ Running("execute", "start")
  /\ CallFrom("await", Frame("executeAll", Top, "start", Cur.arg))
  /\ UNCHANGED << log, db, pool, migLog >>

ExecuteReturn == AwaitVoid("execute")

\* mutant: no early return for an empty list
ExecuteAllNoEarlyReturn ==
  /\ Running("executeAll", "start")
  /\ CallFrom("await", Frame("transaction", Top, "begin", [Cur.arg EXCEPT !.cb = "executeAllCb"]))
  /\ UNCHANGED << log, db, pool, migLog >>

\* client.executeAll(queries)
ExecuteAll ==
  /\ Running("executeAll", "start")
  /\ IF Len(Cur.arg.qs) = 0
     THEN Finish(Ret(Void))
     ELSE CallFrom("await", Frame("transaction", Top, "begin", [Cur.arg EXCEPT !.cb = "executeAllCb"]))
  /\ UNCHANGED << log, db, pool, migLog >>

ExecuteAllReturn == AwaitVoid("executeAll")

\* mutant: a query and the one after it are sent together, then both awaited
ExecuteAllLoopTwoAtOnce(ok) ==
  /\ Running("executeAllCb", "body")
  /\ Cur.i <= Len(Cur.arg.qs)
  /\ IF Cur.i < Len(Cur.arg.qs)
     THEN /\ log' = log \o << Entry(UserQuery(Cur.arg.qs[Cur.i]), ok, <<>>, Top, Clock + 1, Clock + 3),
                              Entry(UserQuery(Cur.arg.qs[Cur.i + 1]), ok, <<>>, Top, Clock + 2, Clock + 4) >>
          /\ db' = Apply(Apply(db, UserQuery(Cur.arg.qs[Cur.i]), NextIdx, ok, Cur.conn),
                         UserQuery(Cur.arg.qs[Cur.i + 1]), NextIdx + 1, ok, Cur.conn)
          /\ IF ok
             THEN /\ calls' = [calls EXCEPT ![Top].i = @ + 2]
                  /\ stack' = stack
             ELSE Finish(Err(StmtError(NextIdx)))
     ELSE /\ Send(UserQuery(Cur.arg.qs[Cur.i]), ok, <<>>)
          /\ IF ok
             THEN /\ calls' = [calls EXCEPT ![Top].i = @ + 1]
                  /\ stack' = stack
             ELSE Finish(Err(StmtError(NextIdx)))
  /\ UNCHANGED << pool, migLog >>

\* for (const query of queries) { await this.client.query(query) }
ExecuteAllLoop(ok) ==
  /\ Running("executeAllCb", "body")
  /\ Cur.i <= Len(Cur.arg.qs)
  /\ Send(UserQuery(Cur.arg.qs[Cur.i]), ok, <<>>)
  /\ IF ok
     THEN /\ calls' = [calls EXCEPT ![Top].i = @ + 1]
          /\ stack' = stack
     ELSE Finish(Err(StmtError(NextIdx)))
  /\ UNCHANGED << pool, migLog >>

ExecuteAllLoopEnd ==
  /\ Running("executeAllCb", "body")
  /\ Cur.i > Len(Cur.arg.qs)
  /\ Finish(Ret(Void))
  /\ UNCHANGED << log, db, pool, migLog >>

\* the rows an INSERT ... RETURNING * sent at position idx brings back
Returned(idx, n) == [j \in 1..n |-> Row(idx)]

\* client.insert(table, record, options)
ClientInsert(ok, n) ==
  /\ Running("insert", "send")
  /\ ok \/ n = 0
  /\ LET query == mkInsertQuery(Cur.arg.table, Cur.arg.records[1], Cur.arg.options)
         rows == Returned(NextIdx, n)
     IN /\ Send(InsertStmt(query), ok, rows)
        /\ Finish(IF ok THEN toInsertResult(rows, Cur.arg.options)
                        ELSE Err(StmtError(NextIdx)))
  /\ UNCHANGED << pool, migLog >>

\* mutant: the first row is returned whenever there is one
ClientQueryOneFirstRow(ok, n) ==
  /\ Running("queryOne", "send")
  /\ ok \/ n = 0
  /\ LET rows == Returned(NextIdx, n)
     IN /\ Send(FragmentQuery(Cur.arg.query), ok, rows)
        /\ Finish(IF ~ok THEN Err(StmtError(NextIdx))
                  ELSE IF Len(rows) = 0 THEN Err(ExpectedOneRowError(rows))
                  ELSE Ret(rows[1]))
  /\ UNCHANGED << pool, migLog >>

\* client.queryOne(query): const rows = await this.query(query);
\* if (rows.length !== 1) throw new Error(...); return rows[0]
ClientQueryOne(ok, n) ==
  /\ Running("queryOne", "send")
  /\ ok \/ n = 0
  /\ LET rows == Returned(NextIdx, n)
     IN /\ Send(FragmentQuery(Cur.arg.query), ok, rows)
        /\ Finish(IF ~ok THEN Err(StmtError(NextIdx))
                  ELSE IF Len(rows) # 1 THEN Err(ExpectedOneRowError(rows))
                  ELSE Ret(rows[1]))
  /\ UNCHANGED << pool, migLog >>

\* mutant: an empty list returns at once, as in executeAll
InsertAllEarlyReturn ==
  /\ Running("insertAll", "start")
  /\ IF Cur.arg.records = <<>>
     THEN Finish(Ret(Rows(<<>>)))
     ELSE CallFrom("await", Frame("transaction", Top, "begin", [Cur.arg EXCEPT !.cb = "insertAllCb"]))
  /\ UNCHANGED << log, db, pool, migLog >>

\* client.insertAll(table, records, options)
InsertAll ==
  /\ Running("insertAll", "start")
  /\ CallFrom("await", Frame("transaction", Top, "begin", [Cur.arg EXCEPT !.cb = "insertAllCb"]))
  /\ UNCHANGED << log, db, pool, migLog >>

\* mutant: every statement is built from the first record's columns
InsertAllLoopFirstShape(ok, n) ==
  /\ Running("insertAllCb", "body")
  /\ Cur.i <= Len(Cur.arg.records)
  /\ ok \/ n = 0
  /\ LET first == Cur.arg.records[1]
         this == Cur.arg.records[Cur.i]
         record == [j \in 1..Len(first) |->
                      Field(first[j].column, IF j <= Len(this) THEN this[j].value ELSE 0)]
         query == mkInsertQuery(Cur.arg.table, record, Cur.arg.options)
         rows == Returned(NextIdx, n)
         row == IF ok THEN toInsertResult(rows, Cur.arg.options)
                      ELSE Err(StmtError(NextIdx))
         owner == calls[Cur.parent].parent
     IN /\ Send(InsertStmt(query), ok, rows)
        /\ IF row.t = "ret"
           THEN /\ calls' = [calls EXCEPT
                               ![Top].i = @ + 1,
                               ![owner].acc = IF row.v # Null THEN Append(@, row.v.n) ELSE @]
                /\ stack' = stack
           ELSE Finish(row)
  /\ UNCHANGED << pool, migLog >>

\* for (const record of records) { const row = await this.insert(...); if (row) result.push(row) }
InsertAllLoop(ok, n) ==
  /\ Running("insertAllCb", "body")
  /\ Cur.i <= Len(Cur.arg.records)
  /\ ok \/ n = 0
  /\ LET query == mkInsertQuery(Cur.arg.table, Cur.arg.records[Cur.i], Cur.arg.options)
         rows == Returned(NextIdx, n)
         row == IF ok THEN toInsertResult(rows, Cur.arg.options)
                      ELSE Err(StmtError(NextIdx))
         owner == calls[Cur.parent].parent
     IN /\ Send(InsertStmt(query), ok, rows)
        /\ IF row.t = "ret"
           THEN /\ calls' = [calls EXCEPT
                               ![Top].i = @ + 1,
                               ![owner].acc = IF row.v # Null THEN Append(@, row.v.n) ELSE @]
                /\ stack' = stack
           ELSE Finish(row)
  /\ UNCHANGED << pool, migLog >>

InsertAllLoopEnd ==
  /\ Running("insertAllCb", "body")
  /\ Cur.i > Len(Cur.arg.records)
  /\ Finish(Ret(Void))
  /\ UNCHANGED << log, db, pool, migLog >>

\* return result
InsertAllReturn ==
  /\ Running("insertAll", "await")
  /\ Cur.sub # None
  /\ Finish(IF Cur.sub.t = "ret" THEN Ret(Rows(Cur.acc)) ELSE Cur.sub)
  /\ UNCHANGED << log, db, pool, migLog >>

\* client.clear()
Clear ==
  /\ Running("clear", "start")
  /\ CallFrom("await", Frame("transaction", Top, "begin", [Cur.arg EXCEPT !.cb = "clearCb"]))
  /\ UNCHANGED << log, db, pool, migLog >>

ClearReturn == AwaitVoid("clear")

\* const tables = await this.query(... information_schema.tables ...)
ClearQueryTables(ok, k) ==
  /\ Running("clearCb", "body")
  /\ ok \/ k = 0
  /\ LET tables == [j \in 1..k |-> j]
     IN /\ Send(CatalogQuery, ok, tables)
        /\ IF ~ok THEN Finish(Err(StmtError(NextIdx)))
           ELSE IF Len(tables) > 0
                THEN /\ calls' = [calls EXCEPT ![Top].pc = "truncate", ![Top].acc = tables]
                     /\ stack' = stack
                ELSE Finish(Ret(Void))
  /\ UNCHANGED << pool, migLog >>

\* await this.query(sql`TRUNCATE ${sql.join(truncationList, ',')} RESTART IDENTITY`)
ClearTruncate(ok) ==
  /\ Running("clearCb", "truncate")
  /\ Send(Truncate(Cur.acc), ok, <<>>)
  /\ Finish(IF ok THEN Ret(Void) ELSE Err(StmtError(NextIdx)))
  /\ UNCHANGED << pool, migLog >>

\* mutant: redo runs up first, then down
DirectionsRedoUpDown(action) ==
  IF action = "redo" THEN << "up", "down" >>
  ELSE IF action = "" THEN << "up" >>
  ELSE << action >>

\* const { action = 'up', ...nodePgMigrateOptions } = options
\* const directions = action === 'redo' ? ['down', 'up'] : [action]
Directions(action) ==
  IF action = "redo" THEN << "down", "up" >>
  ELSE IF action = "" THEN << "up" >>
  ELSE << action >>

\* what the runner is called with: the defaults, then ...nodePgMigrateOptions
RunnerCall(direction, given) ==
  [dbClient |-> "this.client",
   migrationsTable |-> IF given.migrationsTable = "" THEN "pgmigrations" ELSE given.migrationsTable,
   dir |-> "migrations",
   direction |-> direction,
   count |-> IF given.count = "" THEN "Infinity" ELSE given.count]

\* for (const direction of directions) { await migrate({ ... }) }
MigrateRun(ok) ==
  /\ Running("migrate", "run")
  /\ Cur.i <= Len(Directions(Cur.arg.action))
  /\ migLog' = Append(migLog, [options |-> RunnerCall(Directions(Cur.arg.action)[Cur.i], Cur.arg.runner),
                               ok |-> ok, by |-> Top])
  /\ IF ok
     THEN /\ calls' = [calls EXCEPT ![Top].i = @ + 1]
          /\ stack' = stack
     ELSE Finish(Err(MigrateError(Len(migLog) + 1)))
  /\ UNCHANGED << log, db, pool >>

MigrateEnd ==
  /\ Running("migrate", "run")
  /\ Cur.i > Len(Directions(Cur.arg.action))
  /\ Finish(Ret(Void))
  /\ UNCHANGED << log, db, pool, migLog >>

Next ==
  \/ \E a \in MethodArgs : DbMethod(a)
  \/ \E ok \in BOOLEAN : PoolConnect(ok)
  \/ WithClientFinally
  \/ \E ok \in BOOLEAN : ClientQuery(ok)
  \/ \E ok \in BOOLEAN, n \in 0..MaxRows : ClientQueryOne(ok, n)
  \/ \E ok \in BOOLEAN : TxBegin(ok)
  \/ \E ok \in BOOLEAN : TxCommit(ok)
  \/ \E ok \in BOOLEAN : TxRollback(ok)
  \/ \E q \in QueryIds, ok \in BOOLEAN : CbQuery(q, ok)
  \/ CbNested
  \/ CbNestedReturn
  \/ \E v \in UserResults : CbReturn(v)
  \/ \E e \in UserErrors : CbRaise(e)
  \/ Execute
  \/ ExecuteReturn
  \/ ExecuteAll
  \/ ExecuteAllReturn
  \/ \E ok \in BOOLEAN : ExecuteAllLoop(ok)
  \/ ExecuteAllLoopEnd
  \/ \E ok \in BOOLEAN, n \in 0..MaxRows : ClientInsert(ok, n)
  \/ InsertAll
  \/ \E ok \in BOOLEAN, n \in 0..MaxRows : InsertAllLoop(ok, n)
  \/ InsertAllLoopEnd
  \/ InsertAllReturn
  \/ Clear
  \/ ClearReturn
  \/ \E ok \in BOOLEAN, k \in 0..MaxTables : ClearQueryTables(ok, k)
  \/ \E ok \in BOOLEAN : ClearTruncate(ok)
  \/ \E ok \in BOOLEAN : MigrateRun(ok)
  \/ MigrateEnd

Spec == Init /\ [][Next]_vars

(* toInsertResult by itself, as insert.test.ts calls it: on any list of   *)
(* rows, null among them, and any options                                 *)
AnyRows == SeqsUpTo({ Row(1), Row(2), Null }, MaxRows)

ToInsertResult(rows, options) ==
  /\ calls = <<>>
  /\ calls' = << [Frame("toInsertResult", 0, "done",
                         [NoArg EXCEPT !.rows = rows, !.options = options])
                   EXCEPT !.res = toInsertResult(rows, options)] >>
  /\ UNCHANGED << stack, log, db, pool, migLog >>

ResultNext == \E rows \in AnyRows, options \in AllOptions : ToInsertResult(rows, options)

ResultSpec == Init /\ [][ResultNext]_vars

(* Several db.transaction calls at a time: each is an async call of its   *)
(* own, suspended at an await while a call made later runs; a suspended    *)
(* call goes on when the running one has settled.                          *)
Roots == { c \in DOMAIN calls : calls[c].parent = 0 }

\* db.transaction(callback), called while earlier calls may be suspended
DbTransaction ==
  /\ Cardinality(Roots) < Cardinality(Callers)
  /\ calls' = Append(calls, Frame("withClient", 0, "connect",
                                  [NoArg EXCEPT !.method = "transaction"]))
  /\ stack' = << Len(calls) + 1 >>
  /\ UNCHANGED << log, db, pool, migLog >>

RECURSIVE StackOf(_)
\* the chain of awaiting calls that ends in call c
StackOf(c) == IF c = 0 THEN <<>> ELSE Append(StackOf(calls[c].parent), c)

\* the calls at which a db.transaction call is suspended
Suspended ==
  { c \in DOMAIN calls :
      /\ calls[c].pc # "done"
      /\ \A d \in DOMAIN calls : calls[d].parent = c => calls[d].pc = "done"
      /\ stack = <<>> }

\* a db.transaction call makes three calls: withClient, client.transaction
\* and the callback
CallIds == 1..(3 * Cardinality(Callers))

\* the call suspended at c goes on
Resume(c) ==
  /\ c \in Suspended
  /\ stack' = StackOf(c)
  /\ UNCHANGED << calls, log, db, pool, migLog >>

PoolNext ==
  \/ DbTransaction
  \/ \E c \in CallIds : Resume(c)
  \/ \E ok \in BOOLEAN : PoolConnect(ok)
  \/ WithClientFinally
  \/ \E ok \in BOOLEAN : TxBegin(ok)
  \/ \E ok \in BOOLEAN : TxCommit(ok)
  \/ \E ok \in BOOLEAN : TxRollback(ok)
  \/ \E q \in QueryIds, ok \in BOOLEAN : CbQuery(q, ok)
  \/ \E v \in UserResults : CbReturn(v)
  \/ \E e \in UserErrors : CbRaise(e)

PoolSpec == Init /\ [][PoolNext]_vars

(* ------------------------ reading the history ------------------------- *)
Ids == 1..Len(calls)
Done(c) == calls[c].pc = "done"
CallsOf(op) == { c \in Ids : calls[c].op = op }
Txs == CallsOf("transaction")
Children(c) == { d \in Ids : calls[d].parent = c }
\* the callback a transaction call invoked (it invokes at most one)
Callback(t) == CHOOSE d \in Children(t) : TRUE

RECURSIVE Inside(_, _)
\* call c is call t or was made, directly or not, by t
Inside(c, t) == IF c = t THEN TRUE ELSE IF c = 0 THEN FALSE ELSE Inside(calls[c].parent, t)

\* positions in the log of the statements call c sent itself
SentBy(c) == { i \in DOMAIN log : log[i].by = c }
Sent(c, kind) == { i \in SentBy(c) : log[i].stmt.kind = kind }
\* ... and of those sent by c or anything it called
SentInside(c) == { i \in DOMAIN log : Inside(log[i].by, c) }
OkSent(c, kind) == { i \in Sent(c, kind) : log[i].ok }
The(S) == CHOOSE x \in S : TRUE

\* the transaction call t settled after its callback threw
CallbackRaised(t) ==
  /\ Done(t)
  /\ Children(t) # {}
  /\ calls[Callback(t)].res.t = "err"

\* the transaction call t settled after BEGIN, callback and COMMIT succeeded
AllSucceeded(t) ==
  /\ Done(t)
  /\ OkSent(t, "BEGIN") # {}
  /\ Children(t) # {}
  /\ calls[Callback(t)].res.t = "ret"
  /\ OkSent(t, "COMMIT") # {}

(* ------------------------------- claims ------------------------------- *)

\* C1: whenever the callback of client.transaction raises e, the call sends
\* ROLLBACK, sends no COMMIT and raises that same e.
C1_CallbackErrorRollsBackAndRethrows ==
  \A t \in Txs :
    CallbackRaised(t) =>
      /\ Sent(t, "ROLLBACK") # {}
      /\ Sent(t, "COMMIT") = {}
      /\ calls[t].res = calls[Callback(t)].res

\* C2: when BEGIN, the callback and COMMIT all succeed, the statements of a
\* client.transaction call are BEGIN, then exactly the callback's statements,
\* then COMMIT, with no ROLLBACK, and the call returns the callback's result.
C2_CommitPath ==
  \A t \in Txs :
    AllSucceeded(t) =>
      LET b == The(Sent(t, "BEGIN"))
          m == The(Sent(t, "COMMIT"))
      IN /\ Sent(t, "BEGIN") = { b }
         /\ Sent(t, "COMMIT") = { m }
         /\ Sent(t, "ROLLBACK") = {}
         /\ SentInside(t) = b..m
         /\ SentInside(Callback(t)) = (b + 1)..(m - 1)
         /\ calls[t].res = Ret(calls[Callback(t)].res.v)

\* a transaction committed a callback that sent statements and returned a value
C2_Witness ==
  \E t \in Txs :
    /\ AllSucceeded(t)
    /\ SentInside(Callback(t)) # {}
    /\ calls[t].res.v.k = "value"

\* C3 as stated: every BEGIN that was sent successfully is followed by exactly
\* one terminal statement of the same call, COMMIT or ROLLBACK, never both and
\* never neither.
C3_ExactlyOneTerminal ==
  \A t \in Txs :
    (Done(t) /\ OkSent(t, "BEGIN") # {}) =>
      Cardinality(Sent(t, "COMMIT") \cup Sent(t, "ROLLBACK")) = 1

\* C3 amended: a transaction call whose BEGIN succeeded sends, before it
\* settles, at most one COMMIT and at most one ROLLBACK and at least one of
\* the two, all after its BEGIN; it sends both exactly when its COMMIT
\* failed, and then the ROLLBACK follows the failed COMMIT.
C3_TerminalAfterBegin ==
  \A t \in Txs :
    LET cs == Sent(t, "COMMIT")
        rs == Sent(t, "ROLLBACK")
    IN /\ Cardinality(Sent(t, "BEGIN")) <= 1
       /\ Cardinality(cs) <= 1
       /\ Cardinality(rs) <= 1
       /\ (cs \cup rs # {}) =>
            /\ OkSent(t, "BEGIN") # {}
            /\ \A i \in cs \cup rs : i > The(Sent(t, "BEGIN"))
       /\ (cs # {} /\ rs # {}) => (~log[The(cs)].ok /\ The(cs) < The(rs))
       /\ (Done(t) /\ OkSent(t, "BEGIN") # {}) =>
            /\ cs \cup rs # {}
            /\ (cs # {} /\ ~log[The(cs)].ok) => rs # {}

\* a transaction settled after its COMMIT failed
C3_Witness ==
  \E t \in Txs :
    /\ Done(t)
    /\ Sent(t, "COMMIT") # {}
    /\ ~log[The(Sent(t, "COMMIT"))].ok
    /\ Sent(t, "ROLLBACK") # {}

\* C4: when the callback raises e and the ROLLBACK sent in response fails,
\* the caller of client.transaction still observes e.
C4_RollbackFailureKeepsOriginalError ==
  \A t \in Txs :
    ( /\ CallbackRaised(t)
      /\ Sent(t, "ROLLBACK") # {}
      /\ ~log[The(Sent(t, "ROLLBACK"))].ok ) =>
        calls[t].res = calls[Callback(t)].res

\* C5: after client.transaction rolled back and re-raised its callback's
\* error, the connection sees no effect of any statement issued inside the
\* callback.
C5_RolledBackEffectsInvisible ==
  \A t \in Txs :
    ( /\ CallbackRaised(t)
      /\ OkSent(t, "ROLLBACK") # {}
      /\ calls[t].res = calls[Callback(t)].res ) =>
        \A i \in SentInside(Callback(t)) :
          Writes(log[i].stmt) => i \notin Visible(log[i].conn)

\* the k-th statement, in sending order, among the positions S of the log
Rank(S, i) == Cardinality({ j \in S : j <= i })
Kind(S, kind) == { i \in S : log[i].stmt.kind = kind }

\* C6: executeAll of a non-empty list runs one transaction: one BEGIN, then
\* the queries in list order, each at most once; COMMIT if all succeed; if a
\* query fails nothing follows it but ROLLBACK and its error is raised unchanged.
C6_ExecuteAllOneTransaction ==
  \A x \in CallsOf("executeAll") :
    (Done(x) /\ calls[x].arg.qs # <<>>) =>
      LET qs == calls[x].arg.qs
          sent == SentInside(x)
          queries == Kind(sent, "QUERY")
      IN /\ Cardinality(Children(x)) = 1
         /\ Children(x) \subseteq Txs
         /\ Cardinality(Kind(sent, "BEGIN")) = 1
         /\ \A i \in sent : i >= The(Kind(sent, "BEGIN"))
         /\ Cardinality(queries) <= Len(qs)
         /\ \A i \in queries : log[i].stmt = UserQuery(qs[Rank(queries, i)])
         /\ ((Cardinality(queries) = Len(qs) /\ \A i \in queries : log[i].ok)
               => Kind(sent, "COMMIT") # {})
         /\ \A i \in queries :
              ~log[i].ok =>
                /\ { j \in sent : j > i } = Kind(sent, "ROLLBACK")
                /\ Kind(sent, "ROLLBACK") # {}
                /\ calls[x].res = Err(StmtError(i))

\* C7: executeAll([]) sends nothing on the connection, calls nothing and
\* returns undefined.
C7_ExecuteAllEmptySendsNothing ==
  \A x \in CallsOf("executeAll") :
    calls[x].arg.qs = <<>> =>
      /\ SentInside(x) = {}
      /\ Children(x) = {}
      /\ log = <<>>
      /\ Done(x) => calls[x].res = Ret(Void)

\* executeAll([]) has returned
C7_Witness ==
  \E x \in CallsOf("executeAll") : calls[x].arg.qs = <<>> /\ Done(x)

\* the policy under which an insert may return no row
IsIgnore(options) ==
  /\ options.defined
  /\ options.onConflict.tag \in {"string", "object"}
  /\ options.onConflict.action = "ignore"

\* the insertAll call x settled, every statement it sent succeeded and every
\* INSERT returned one row, or none under an ignore policy
InsertAllSucceeded(x) ==
  /\ Done(x)
  /\ \A i \in SentInside(x) : log[i].ok
  /\ \A i \in Kind(SentInside(x), "INSERT") :
       \/ Len(log[i].rows) = 1
       \/ Len(log[i].rows) = 0 /\ IsIgnore(calls[x].arg.options)

BadCardinality(i) ==
  /\ log[i].stmt.kind = "INSERT"
  /\ log[i].ok
  /\ \/ Len(log[i].rows) > 1
     \/ Len(log[i].rows) = 0 /\ ~IsIgnore(calls[log[i].by].arg.options)

CardinalityError(i) ==
  Err(IF Len(log[i].rows) > 1 THEN MultipleRowsError ELSE NoRowsError)

\* C9 as stated: once everything has settled, an insert of client.insert or
\* client.insertAll that observed a wrong number of rows has raised a
\* cardinality error, ROLLBACK was sent after it and no COMMIT.
C9_CardinalityErrorRollsBack ==
  \A i \in DOMAIN log :
    (BadCardinality(i) /\ stack = <<>>) =>
      /\ calls[log[i].by].res = CardinalityError(i)
      /\ \E j \in DOMAIN log : j > i /\ log[j].stmt.kind = "ROLLBACK"
      /\ \A j \in DOMAIN log : j > i => log[j].stmt.kind # "COMMIT"

\* C9 amended: the insert raises a cardinality error to its caller; issued by
\* insertAll, the enclosing transaction sends nothing after it but ROLLBACK,
\* and never COMMIT; issued by client.insert on its own, no ROLLBACK is sent
\* and the INSERT stays committed.
C9_CardinalityErrorRaised ==
  \A i \in DOMAIN log :
    BadCardinality(i) =>
      LET c == log[i].by
          t == calls[c].parent
      IN /\ Done(c)
         /\ calls[c].res = CardinalityError(i)
         /\ calls[c].op \in {"insert", "insertAllCb"}
         /\ calls[c].op = "insertAllCb" =>
              /\ { j \in DOMAIN log : j > i } = Sent(t, "ROLLBACK")
              /\ Sent(t, "COMMIT") = {}
              /\ Done(t) => Sent(t, "ROLLBACK") # {}
              /\ calls[t].sub = CardinalityError(i)
         /\ calls[c].op = "insert" =>
              /\ Len(log) = 1
              /\ i \in db.committed

\* the transaction of an insertAll settled after an INSERT returned two rows
C9_Witness ==
  \E i \in DOMAIN log :
    /\ BadCardinality(i)
    /\ Len(log[i].rows) > 1
    /\ calls[log[i].by].op = "insertAllCb"
    /\ Done(calls[log[i].by].parent)
    /\ i > 2

\* C10: a Database method takes exactly one connection from the pool and
\* releases it exactly once, after its callback settled, whether the callback
\* returned or raised; nothing is released when pool.connect() fails.
C10_OneConnectionReleasedOnce ==
  /\ pool.connected <= 1
  /\ pool.released <= pool.connected
  /\ calls # <<>> =>
       /\ (Len(calls) >= 2 \/ log # <<>> \/ migLog # <<>>) => pool.connected = 1
       /\ pool.released = 1 => (Done(2) /\ calls[1].res = calls[2].res)
       /\ Done(1) =>
            /\ pool.released = pool.connected
            /\ pool.connected = 0 <=> (calls[1].res = Err(ConnectError) /\ Len(calls) = 1)
       /\ (Len(calls) >= 2 /\ ~Done(2)) => pool.released = 0

\* a Database method settled with the error its callback raised
C10_Witness ==
  /\ calls # <<>>
  /\ Done(1)
  /\ pool.released = 1
  /\ calls[1].res.t = "err"

(* ------------------------- the sent statements ------------------------ *)
\* the leaves of a fragment, left to right, every Sub opened in place
LeafText(piece) == [j \in 1..Len(piece) |-> [isValue |-> FALSE, s |-> piece[j], v |-> 0]]
LeafValue(v) == << [isValue |-> TRUE, s |-> "", v |-> v] >>

RECURSIVE LeavesFrom(_, _)
LeavesFrom(f, k) ==
  IF k > Len(f.interp) THEN <<>>
  ELSE LET it == f.interp[k]
       IN (CASE it.t = "Value" -> LeafValue(it.v)
             [] it.t = "Raw" -> LeafText(it.s)
             [] it.t = "Sub" -> LeafText(it.f.text[1]) \o LeavesFrom(it.f, 1))
          \o LeafText(f.text[k + 1]) \o LeavesFrom(f, k + 1)

Leaves(f) == LeafText(f.text[1]) \o LeavesFrom(f, 1)
IsValueLeaf(leaf) == leaf.isValue
ValueLeaves(leaves) == SelectSeq(leaves, IsValueLeaf)

\* the leaves as text, the values numbered 1, 2, ... in the order they stand
Numbered(leaves) ==
  [j \in 1..Len(leaves) |->
     IF leaves[j].isValue
     THEN "$" \o ToString(Len(ValueLeaves(SubSeq(leaves, 1, j))))
     ELSE leaves[j].s]

PlaceholderTexts == { "$" \o ToString(n) : n \in 1..32 }
IsPlaceholder(chunk) == chunk \in PlaceholderTexts

\* C11: every statement sent has the placeholders $1..$n, left to right,
\* where n is the number of its values; values[i] is the i-th Value met when
\* the fragment is walked depth first, left to right, also when a
\* sub-fragment is spliced in more than once; the text is the leaves of that
\* walk with each Value replaced by its number.
C11_PlaceholdersNumberedInOrder ==
  \A i \in DOMAIN log :
    LET leaves == Leaves(log[i].stmt.sql)
        dfs == ValueLeaves(leaves)
        n == Len(dfs)
    IN /\ log[i].values = [j \in 1..n |-> dfs[j].v]
       /\ SelectSeq(log[i].chunks, IsPlaceholder) = [j \in 1..n |-> "$" \o ToString(j)]
       /\ log[i].chunks = Numbered(leaves)

\* a query was sent whose fragment splices twice a sub-fragment that has a
\* Value after a sub-fragment with a Value of its own
C11_Witness ==
  \E i \in DOMAIN log :
    LET f == log[i].stmt.sql
    IN /\ calls[log[i].by].op = "query"
       /\ Len(f.interp) = 2
       /\ f.interp[1].t = "Sub"
       /\ f.interp[2] = f.interp[1]
       /\ LET g == f.interp[1].f
          IN /\ Len(g.interp) = 2
             /\ g.interp[1].t = "Sub"
             /\ g.interp[1].f.interp # <<>>
             /\ g.interp[2].t = "Value"
       /\ Len(log[i].values) = 4

\* the fragment with w in the place of every Value's content
RECURSIVE Revalued(_, _)
Revalued(f, w) ==
  [text |-> f.text,
   interp |-> [k \in 1..Len(f.interp) |->
                 CASE f.interp[k].t = "Value" -> Value(w)
                   [] f.interp[k].t = "Raw" -> f.interp[k]
                   [] f.interp[k].t = "Sub" -> Sub(Revalued(f.interp[k].f, w))]]

IsTextLeaf(leaf) == ~leaf.isValue
IsText(chunk) == ~IsPlaceholder(chunk)
Range(seq) == { seq[j] : j \in DOMAIN seq }

\* the values the caller of the call by gave for the statement at log index i
GivenValues(i) ==
  LET c == calls[log[i].by]
  IN CASE log[i].stmt.kind = "INSERT" /\ c.op = "insert" ->
            { c.arg.records[1][j].value : j \in DOMAIN c.arg.records[1] }
       [] log[i].stmt.kind = "INSERT" /\ c.op = "insertAllCb" ->
            LET k == Cardinality({ j \in 1..i : log[j].by = log[i].by })
                record == c.arg.records[k]
            IN { record[j].value : j \in DOMAIN record }
       [] log[i].stmt.kind = "QUERY" /\ c.op \notin {"query", "queryOne"} -> { log[i].stmt.q }
       [] OTHER -> {}

\* C12: the text of a statement sent does not depend on what its Values
\* hold: the same fragment with every content replaced by 0 composes to the
\* same text, so any two fragments differing in contents only agree; the
\* values a caller gave stand in the values list and nowhere in the text; the
\* text outside the placeholders is the literal and Raw text of the fragment,
\* unchanged, and there is one placeholder and one values entry per Value.
C12_TextIndependentOfValues ==
  \A i \in DOMAIN log :
    LET f == log[i].stmt.sql
        leaves == Leaves(f)
        n == Len(ValueLeaves(leaves))
        texts == SelectSeq(leaves, IsTextLeaf)
        inText == Range(log[i].chunks)
        inValues == Range(log[i].values)
    IN /\ LET blank == Flattened(Revalued(f, 0))
          IN /\ blank.chunks = log[i].chunks
             /\ blank.values = [j \in 1..n |-> 0]
       /\ GivenValues(i) \subseteq inValues
       /\ \A v \in inValues : ToString(v) \notin inText
       /\ SelectSeq(log[i].chunks, IsText) = [j \in 1..Len(texts) |-> texts[j].s]
       /\ Len(SelectSeq(log[i].chunks, IsPlaceholder)) = n
       /\ Len(log[i].values) = n

\* a query was sent whose fragment joins a sub-fragment holding a Value with a
\* parameter, the delimiter being Raw text
C12_Witness ==
  \E i \in DOMAIN log :
    LET f == log[i].stmt.sql
    IN /\ calls[log[i].by].op = "query"
       /\ Len(f.interp) = 3
       /\ f.interp[2].t = "Raw"
       /\ f.interp[1].t = "Sub"
       /\ f.interp[1].f.interp # <<>>
       /\ Len(log[i].values) >= 2
       /\ "," \in Range(log[i].chunks)

(* ------------------------- the INSERT statements ---------------------- *)
Inserts == { i \in DOMAIN log : log[i].stmt.kind = "INSERT" }

\* the record, table and options the caller gave for the INSERT at log index i
RecordAt(i) ==
  LET c == calls[log[i].by]
  IN IF c.op = "insert" THEN c.arg.records[1]
     ELSE c.arg.records[Cardinality({ j \in 1..i : log[j].by = log[i].by })]
TableAt(i) == calls[log[i].by].arg.table
OptionsAt(i) == calls[log[i].by].arg.options
PolicyAt(i) ==
  IF OptionsAt(i).defined /\ OptionsAt(i).onConflict.tag \in {"string", "object"}
  THEN OptionsAt(i).onConflict.action
  ELSE "none"

RECURSIVE CommaList(_)
CommaList(strings) ==
  IF strings = <<>> THEN ""
  ELSE IF Len(strings) = 1 THEN strings[1]
  ELSE strings[1] \o "," \o CommaList(Tail(strings))

Quoted(name) == "\"" \o name \o "\""
QuotedColumns(record) == CommaList([j \in 1..Len(record) |-> Quoted(record[j].column)])
Dollars(from, n) == CommaList([j \in 1..n |-> "$" \o ToString(from + j)])
InsertHead(i) ==
  "INSERT INTO " \o Quoted(TableAt(i)) \o " (" \o QuotedColumns(RecordAt(i))
  \o ") VALUES (" \o Dollars(0, Len(RecordAt(i))) \o ")"
ValuesOf(record) == [j \in 1..Len(record) |-> record[j].value]

\* C13: an INSERT built without a conflict policy reads, white space aside,
\* INSERT INTO "table" ("c1",...,"cn") VALUES ($1,...,$n) RETURNING * with the
\* values v1..vn in the order of the record's keys and without ON CONFLICT;
\* leaving onConflict out and passing null give the same query.
C13_InsertWithoutPolicy ==
  \A i \in Inserts :
    PolicyAt(i) = "none" =>
      /\ NormalizeSpace(log[i].chunks) = InsertHead(i) \o " RETURNING *"
      /\ log[i].values = ValuesOf(RecordAt(i))
      /\ "CONFLICT" \notin Range(log[i].chunks)
      /\ log[i].stmt.sql = mkInsertQuery(TableAt(i), RecordAt(i), OptionsUndefined).sql
      /\ log[i].stmt.sql = mkInsertQuery(TableAt(i), RecordAt(i), Options(ConflictUndefined)).sql
      /\ log[i].stmt.sql = mkInsertQuery(TableAt(i), RecordAt(i), Options(ConflictNull)).sql

\* an insert without options sent the INSERT of a record of three columns
C13_Witness ==
  \E i \in Inserts :
    /\ ~OptionsAt(i).defined
    /\ Len(RecordAt(i)) = 3
    /\ log[i].text =
         "\n INSERT INTO \"song\" (\"artist\",\"name\",\"rating\")\n VALUES ($1,$2,$3)\n \n RETURNING *\n"

\* the conflict target as the statement spells it
TargetAt(i) ==
  LET c == OptionsAt(i).onConflict
  IN IF c.constraint # "" THEN " ON CONSTRAINT " \o Quoted(c.constraint)
     ELSE IF c.column # "" THEN " (" \o Quoted(c.column) \o ")"
     ELSE ""

\* C14: an INSERT built with the policy ignore reads, white space aside, as
\* the plain INSERT with ON CONFLICT DO NOTHING before RETURNING *, the
\* target ("c") or ON CONSTRAINT "k" after ON CONFLICT when one is given; the
\* values are v1..vn; 'ignore' and {action: 'ignore'} give the same query.
C14_InsertIgnore ==
  \A i \in Inserts :
    PolicyAt(i) = "ignore" =>
      /\ NormalizeSpace(log[i].chunks) =
           InsertHead(i) \o " ON CONFLICT" \o TargetAt(i) \o " DO NOTHING RETURNING *"
      /\ log[i].values = ValuesOf(RecordAt(i))
      /\ TargetAt(i) = "" =>
           /\ log[i].stmt.sql = mkInsertQuery(TableAt(i), RecordAt(i), Options(ConflictString)).sql
           /\ log[i].stmt.sql =
                mkInsertQuery(TableAt(i), RecordAt(i), Options(ConflictObject("ignore", "", ""))).sql

\* an insert with the policy ignore on a constraint sent its INSERT
C14_Witness ==
  \E i \in Inserts :
    /\ OptionsAt(i).onConflict = ConflictObject("ignore", "", "unique_name")
    /\ Len(RecordAt(i)) = 1
    /\ NormalizeSpace(log[i].chunks) =
         "INSERT INTO \"song\" (\"name\") VALUES ($1) ON CONFLICT ON CONSTRAINT \"unique_name\" DO NOTHING RETURNING *"

\* C15: an INSERT built with the policy update and a target reads, white
\* space aside, as the plain INSERT with ON CONFLICT <target> DO UPDATE SET
\* ("c1",...,"cn") = ($n+1,...,$2n) before RETURNING *, and its values are
\* v1..vn followed by v1..vn again.
C15_InsertUpdate ==
  \A i \in Inserts :
    (PolicyAt(i) = "update" /\ TargetAt(i) # "") =>
      LET n == Len(RecordAt(i))
      IN /\ NormalizeSpace(log[i].chunks) =
              InsertHead(i) \o " ON CONFLICT" \o TargetAt(i) \o " DO UPDATE SET ("
              \o QuotedColumns(RecordAt(i)) \o ") = (" \o Dollars(n, n) \o ") RETURNING *"
         /\ log[i].values = ValuesOf(RecordAt(i)) \o ValuesOf(RecordAt(i))

\* an insert with the policy update on a column sent the INSERT of a record
\* of two columns
C15_Witness ==
  \E i \in Inserts :
    /\ OptionsAt(i).onConflict = ConflictObject("update", "name", "")
    /\ NormalizeSpace(log[i].chunks) =
         "INSERT INTO \"song\" (\"name\",\"artist\") VALUES ($1,$2) ON CONFLICT (\"name\") DO UPDATE SET (\"name\",\"artist\") = ($3,$4) RETURNING *"
    /\ log[i].values = << 1, 2, 1, 2 >>

\* the calls of insert or insertAll asking for update without a target
UpdateWithoutTarget ==
  { c \in Ids :
      /\ calls[c].op \in {"insert", "insertAll"}
      /\ calls[c].arg.options.defined
      /\ calls[c].arg.options.onConflict = ConflictObject("update", "", "") }

\* C16: an insert asking for the policy update with neither a column nor a
\* constraint is rejected before a statement is built: it sends no INSERT and,
\* once settled, has raised an error.
C16_UpdateWithoutTargetRejected ==
  \A c \in UpdateWithoutTarget :
    /\ Inserts \cap SentInside(c) = {}
    /\ Done(c) => calls[c].res.t = "err"

(* ------------------------- toInsertResult ----------------------------- *)
ResultCalls == { c \in Ids : calls[c].op = "toInsertResult" }

\* C17 as stated: a list of exactly one element r gives r, whatever the
\* options, and no error.
C17_SingleElementReturned ==
  \A c \in ResultCalls :
    Len(calls[c].arg.rows) = 1 => calls[c].res = Ret(calls[c].arg.rows[1])

\* C17: a list of exactly one row r that is not null gives r, whatever the
\* options, and no error; the list [null] is taken for an empty one.
C17_SingleRowReturned ==
  \A c \in ResultCalls :
    LET rows == calls[c].arg.rows
    IN Len(rows) = 1 =>
         IF rows[1] # Null THEN calls[c].res = Ret(rows[1])
         ELSE calls[c].res = IF IsIgnore(calls[c].arg.options) THEN Ret(Null)
                             ELSE Err(NoRowsError)

\* one row came back under the policy ignore and was returned
C17_Witness ==
  \E c \in ResultCalls :
    /\ calls[c].arg.rows = << Row(2) >>
    /\ calls[c].arg.options = Options(ConflictObject("ignore", "name", ""))
    /\ calls[c].res = Ret(Row(2))

\* C18: the empty list gives null exactly when the policy is ignore, as the
\* string or as an object with or without a target; otherwise it raises.
C18_NoRowsNullOnlyOnIgnore ==
  \A c \in ResultCalls :
    calls[c].arg.rows = <<>> =>
      LET o == calls[c].arg.options
          ignore == o \in { Options(ConflictString),
                            Options(ConflictObject("ignore", "", "")),
                            Options(ConflictObject("ignore", "name", "")),
                            Options(ConflictObject("ignore", "", "unique_name")) }
      IN /\ ignore <=> calls[c].res = Ret(Null)
         /\ ~ignore <=> calls[c].res.t = "err"

\* the empty list under {action: 'ignore'} with a constraint gave null
C18_Witness ==
  \E c \in ResultCalls :
    /\ calls[c].arg.rows = <<>>
    /\ calls[c].arg.options = Options(ConflictObject("ignore", "", "unique_name"))
    /\ calls[c].res = Ret(Null)

\* C19: a list of two or more rows raises an error under every options
\* value, the ignore policies included.
C19_ManyRowsError ==
  \A c \in ResultCalls :
    Len(calls[c].arg.rows) >= 2 => calls[c].res = Err(MultipleRowsError)

\* two rows under 'ignore' raised the error
C19_Witness ==
  \E c \in ResultCalls :
    /\ Len(calls[c].arg.rows) = 2
    /\ calls[c].arg.options = Options(ConflictString)
    /\ calls[c].res.t = "err"

(* ------------------------------- clear -------------------------------- *)
KindsSent == [i \in DOMAIN log |-> log[i].stmt.kind]
AllOk == \A i \in DOMAIN log : log[i].ok
TruncateText(tables) ==
  "TRUNCATE "
  \o CommaList([j \in 1..Len(tables) |-> Quoted("public") \o "." \o Quoted(TableName(tables[j]))])
  \o " RESTART IDENTITY"

\* C20: client.clear() sends BEGIN, then the catalog query, then, only if
\* the catalog named tables t1..tn with n >= 1, one TRUNCATE
\* "public"."t1",...,"public"."tn" RESTART IDENTITY naming each table once,
\* then COMMIT; with no table named COMMIT follows the catalog query. Each
\* step is taken when the statements before it succeeded.
C20_ClearTruncatesOnce ==
  \A x \in Ids :
    calls[x].op = "clear" =>
      LET tables == IF Len(log) >= 2 /\ log[2].ok THEN log[2].rows ELSE <<>>
          expected == IF tables = <<>> THEN << "BEGIN", "CATALOG", "COMMIT" >>
                      ELSE << "BEGIN", "CATALOG", "TRUNCATE", "COMMIT" >>
      IN /\ \A i \in DOMAIN log :
              (\A j \in 1..(i - 1) : log[j].ok) => i <= Len(expected) /\ KindsSent[i] = expected[i]
         /\ (Done(x) /\ AllOk) => KindsSent = expected
         /\ Cardinality(Kind(DOMAIN log, "TRUNCATE")) <= 1
         /\ \A i \in Kind(DOMAIN log, "TRUNCATE") :
              /\ i = 3
              /\ tables # <<>>
              /\ NormalizeSpace(log[i].chunks) = TruncateText(tables)
              /\ log[i].values = <<>>
              /\ \A j \in DOMAIN tables :
                   Cardinality({ k \in DOMAIN log[i].chunks :
                                   log[i].chunks[k] = TableName(tables[j]) }) = 1

\* a clear settled after truncating the two tables the catalog named
C20_Witness ==
  \E x \in Ids :
    /\ calls[x].op = "clear"
    /\ Done(x)
    /\ AllOk
    /\ Len(log) = 4
    /\ NormalizeSpace(log[3].chunks) =
         "TRUNCATE \"public\".\"t1\",\"public\".\"t2\" RESTART IDENTITY"

\* a clear settled without a TRUNCATE, the catalog naming no table
C20_WitnessNoTables ==
  \E x \in Ids :
    /\ calls[x].op = "clear"
    /\ Done(x)
    /\ AllOk
    /\ KindsSent = << "BEGIN", "CATALOG", "COMMIT" >>

(* ------------------------- one statement at a time -------------------- *)
\* C21: within one executeAll, insertAll or clear call every statement, BEGIN
\* included, is written to the connection only after the response to the
\* statement written before it was read: no two of them are in flight
\* together.
C21_OneStatementInFlight ==
  \A x \in Ids :
    calls[x].op \in {"executeAll", "insertAll", "clear"} =>
      \A i, j \in SentInside(x) :
        /\ log[i].sentAt < log[i].answeredAt
        /\ i < j => log[i].answeredAt < log[j].sentAt

\* an executeAll of two queries settled after BEGIN, both queries and COMMIT
C21_Witness ==
  \E x \in Ids :
    /\ calls[x].op = "executeAll"
    /\ Done(x)
    /\ Cardinality(SentInside(x)) = 4
    /\ AllOk

(* ------------------------- nested transactions ------------------------ *)
\* client.transaction calls made by the callback of a client.transaction
Nested == { t \in Txs : calls[t].parent # 0 /\ calls[calls[t].parent].op = "user" }
\* the client.transaction whose callback made the nested call t
Outer(t) == calls[calls[t].parent].parent
\* the statements that ended a database transaction before position i
EndedBefore(i) ==
  { k \in 1..(i - 1) : log[k].ok /\ log[k].stmt.kind \in {"COMMIT", "ROLLBACK"} }

\* C22: a client.transaction called inside the callback of an active
\* client.transaction sends its own BEGIN on the connection and nothing but
\* BEGIN, COMMIT and ROLLBACK (no SAVEPOINT); when its COMMIT or ROLLBACK
\* succeeds the database transaction of the outer call is over although the
\* outer call is still running: no transaction is open, nothing is pending,
\* and an inner COMMIT has made durable what the outer callback wrote before.
C22_NestedSharesOuterBoundary ==
  \A t \in Nested :
    /\ OkSent(Outer(t), "BEGIN") # {}
    /\ calls[t].pc # "begin" => Cardinality(Sent(t, "BEGIN")) = 1
    /\ \A i \in SentBy(t) : log[i].stmt.kind \in {"BEGIN", "COMMIT", "ROLLBACK"}
    /\ \A i \in OkSent(t, "COMMIT") \cup OkSent(t, "ROLLBACK") :
         /\ ~Done(Outer(t)) \/ \E k \in SentBy(Outer(t)) : k > i
         /\ i = Len(log) =>
              /\ ~db.inTx[log[i].conn]
              /\ db.pending[log[i].conn] = {}
              /\ ~Done(Outer(t))
    /\ \A i \in OkSent(t, "COMMIT") :
         \A j \in SentBy(calls[t].parent) :
           (j < i /\ log[j].ok /\ Writes(log[j].stmt) /\ \A k \in EndedBefore(i) : k < j)
             => j \in db.committed

\* the outer callback wrote, then a nested call's COMMIT just succeeded
C22_Witness ==
  \E t \in Nested :
    /\ OkSent(t, "COMMIT") = {Len(log)}
    /\ \E j \in SentBy(calls[t].parent) : log[j].ok /\ Writes(log[j].stmt)
    /\ ~Done(Outer(t))

(* ------------------------------ migrate ------------------------------- *)
\* the runner invocations of the migrate call m, in order
RunsOf(m) == SelectSeq(migLog, LAMBDA r : r.by = m)
SameButDirection(a, b) == [a EXCEPT !.direction = ""] = [b EXCEPT !.direction = ""]

C24_QueryOneExactlyOneRow ==
  \A c \in CallsOf("queryOne") :
    Done(c) =>
      /\ Cardinality(SentInside(c)) = 1
      /\ LET sent == log[The(SentInside(c))]
         IN /\ sent.stmt = FragmentQuery(calls[c].arg.query)
            /\ (sent.ok /\ Len(sent.rows) = 1) => calls[c].res = Ret(sent.rows[1])
            /\ (sent.ok /\ Len(sent.rows) # 1) =>
                 calls[c].res = Err(ExpectedOneRowError(sent.rows))

\* a queryOne settled after two rows came back
C24_Witness ==
  \E c \in CallsOf("queryOne") :
    /\ Done(c)
    /\ \E i \in SentInside(c) : log[i].ok /\ Len(log[i].rows) = 2

(* --------------------- failures of BEGIN and COMMIT ------------------- *)
\* C25: when the BEGIN of a client.transaction call fails, the callback is
\* never invoked, the call sends nothing after the BEGIN, neither COMMIT nor
\* ROLLBACK, and raises the BEGIN's error.
C25_BeginFailureSendsNothingMore ==
  \A t \in Txs :
    \A b \in Sent(t, "BEGIN") :
      ~log[b].ok =>
        /\ Children(t) = {}
        /\ SentInside(t) = { b }
        /\ Done(t)
        /\ calls[t].res = Err(StmtError(b))

\* a client.transaction settled after its BEGIN failed
C25_Witness ==
  \E t \in Txs : Done(t) /\ Sent(t, "BEGIN") # {} /\ OkSent(t, "BEGIN") = {}

\* C26: when the callback of client.transaction returned normally and the
\* COMMIT failed, ROLLBACK is the next and last statement of the call and the
\* call raises an error (the COMMIT's, or the ROLLBACK's when that fails too)
\* instead of returning the callback's result.
C26_CommitFailureRollsBackAndRaises ==
  \A t \in Txs :
    \A c \in Sent(t, "COMMIT") :
      (Done(t) /\ ~log[c].ok) =>
        /\ calls[Callback(t)].res.t = "ret"
        /\ Sent(t, "ROLLBACK") = { c + 1 }
        /\ \A i \in SentInside(t) : i <= c + 1
        /\ calls[t].res = Err(StmtError(IF log[c + 1].ok THEN c ELSE c + 1))

\* a callback returned a value, the COMMIT failed and the ROLLBACK succeeded
C26_Witness ==
  \E t \in Txs :
    /\ Done(t)
    /\ Sent(t, "COMMIT") # {} /\ OkSent(t, "COMMIT") = {}
    /\ calls[Callback(t)].res.t = "ret"
    /\ OkSent(t, "ROLLBACK") # {}

(* ----------------------- db.transaction and the pool ------------------ *)
\* the client.transaction call that the db.transaction call w made
TxOf(w) == { t \in Children(w) : calls[t].op = "transaction" }
\* the COMMIT and ROLLBACK statements call t sent after position b
TerminalsAfter(t, b) == { i \in Sent(t, "COMMIT") \cup Sent(t, "ROLLBACK") : i > b }
\* where the transaction that call t began at position b ends in the log
EndOf(t, b) ==
  IF TerminalsAfter(t, b) = {} THEN Len(log)
  ELSE CHOOSE i \in TerminalsAfter(t, b) : \A j \in TerminalsAfter(t, b) : i <= j

\* C27: every statement of a db.transaction call goes to the connection the
\* call acquired; that connection is in the pool again only when a COMMIT or
\* ROLLBACK was sent after the call's successful BEGIN; between that BEGIN
\* and the COMMIT or ROLLBACK no other call sends on that connection.
C27_ConnectionHeldUntilTerminal ==
  \A w \in Roots :
    /\ \A i \in SentInside(w) : calls[w].conn # 0 /\ log[i].conn = calls[w].conn
    /\ \A t \in TxOf(w) :
         \A b \in OkSent(t, "BEGIN") :
           /\ (calls[w].conn \notin pool.out \/ Done(w)) => TerminalsAfter(t, b) # {}
           /\ \A i \in b..EndOf(t, b) :
                log[i].conn = log[b].conn => i \in SentInside(w)

\* two db.transaction calls at a time: the second one began and ended its
\* transaction, on a connection of its own, while the first one's was open
C27_Witness ==
  \E w, x \in Roots :
    /\ w # x
    /\ \E t \in TxOf(w), u \in TxOf(x) :
         \E b \in OkSent(t, "BEGIN"), c \in OkSent(u, "BEGIN") :
           /\ b < c
           /\ TerminalsAfter(u, c) # {}
           /\ EndOf(u, c) < EndOf(t, b)
           /\ TerminalsAfter(t, b) # {}
           /\ log[b].conn # log[c].conn

\* a db.transaction call was given the connection an earlier call had released
C27_WitnessReuse ==
  \E w, x \in Roots :
    /\ w # x
    /\ Done(w)
    /\ SentInside(w) # {} /\ SentInside(x) # {}
    /\ calls[w].conn = calls[x].conn

(* --------------------------- insertAll([]) ---------------------------- *)
\* C28: client.insertAll with an empty record list opens a transaction all
\* the same: it sends BEGIN first and never an INSERT, COMMIT right after a
\* BEGIN that succeeded, and when the COMMIT succeeded too it has sent
\* nothing else and returns an empty list.
C28_InsertAllEmptyStillCommits ==
  \A x \in CallsOf("insertAll") :
    (calls[x].arg.records = <<>> /\ Done(x)) =>
      LET sent == SentInside(x)
          b == The(Kind(sent, "BEGIN"))
      IN /\ Kind(sent, "INSERT") = {}
         /\ Cardinality(Kind(sent, "BEGIN")) = 1
         /\ \A i \in sent : i >= b
         /\ log[b].ok => (b + 1 \in Kind(sent, "COMMIT"))
         /\ (log[b].ok /\ log[b + 1].ok) =>
              /\ sent = { b, b + 1 }
              /\ calls[x].res = Ret(Rows(<<>>))

\* insertAll([]) returned after BEGIN and COMMIT succeeded
C28_Witness ==
  \E x \in CallsOf("insertAll") :
    /\ calls[x].arg.records = <<>>
    /\ Done(x)
    /\ calls[x].res = Ret(Rows(<<>>))
    /\ KindsSent = << "BEGIN", "COMMIT" >>
====
